---- MODULE Spec2Model ----
(***************************************************************************)
(* Model of the watflow phase/task orchestration:                          *)
(*   src/template/main.py   WorkflowRunner (run, run_phase,                *)
(*                          _run_sequential, _run_parallel, _finish_...)   *)
(*   src/watflow/runner.py  BaseWorkflowRunner.run_tool_subprocess         *)
(*   src/watflow/config.py  DEFAULT_PHASE_SETTINGS, get_phases             *)
(*                                                                         *)
(* One run of WorkflowRunner.run() over a resolved phase list.  The main   *)
(* thread's position is pc; the tasks of the phase being executed are      *)
(* tracked by status/fut (the futures of the ProcessPoolExecutor in a      *)
(* parallel phase, the single subprocess in a sequential one).  Worker     *)
(* processes of the pool are assumed to stay alive (BrokenProcessPool is   *)
(* outside the model).                                                     *)
(***************************************************************************)
EXTENDS Integers, Sequences, FiniteSets, TLC

\* ------------------------------------------------------------------ bounds
MaxPhases == 2
MaxTools == 2
MaxWorkers == 2
MaxMinSuccess == 3
\* The single-phase specification SpecOne: longer tool lists, any retry setting.
MaxToolsOne == 3
MaxRetry == 2
\* The task-invoker specification SpecTool: exit codes and signal numbers.
MaxExitCode == 7
MaxSignal == 2

\* ------------------------------------------------------- program constants
\* DEFAULT_PHASE_SETTINGS["timeout"]
DefaultTimeout == 120
\* DEFAULT_PHASE_SETTINGS["retry"]
DefaultRetry == 0
\* DEFAULT_PHASE_SETTINGS["max_workers"]
DefaultMaxWorkers == 4

\* --------------------------------------------------------------- the inputs
\* Task references of a phase: the first n entries of ToolSeq (a reference may
\* repeat; the orchestration never interprets a reference).
ToolSeq == <<"a", "a", "b", "c">>
ToolLists == {SubSeq(ToolSeq, 1, n) : n \in 0..MaxTools}

\* Phase names are pairwise distinct in a loaded config (validate_config).
PhaseNameAt == <<"p1", "p2", "p3", "p4">>

\* The settings of a resolved phase (get_phases populates every one).  Only a
\* parallel phase reads max_workers, so it is varied for parallel phases only.
PhaseSettings ==
    {s \in [tools : ToolLists,
            parallel : BOOLEAN,
            max_workers : 1..MaxWorkers,
            timeout : {DefaultTimeout},
            retry : {DefaultRetry},
            critical : BOOLEAN,
            min_success : 0..MaxMinSuccess] :
        s.parallel \/ s.max_workers = 1}

\* The k-th phase of a config: its name and its settings.
PhaseAt(k) == {[name |-> PhaseNameAt[k]] @@ s : s \in PhaseSettings}

\* The resolved phase lists of n phases, in config order.
RECURSIVE get_phases(_)
get_phases(n) ==
    IF n = 0 THEN {<<>>}
    ELSE {Append(ps, p) : ps \in get_phases(n - 1), p \in PhaseAt(n)}

\* The phase lists of SpecOne: one phase, up to MaxToolsOne tools, any retry.
PhaseSettingsOne ==
    {s \in [tools : {SubSeq(ToolSeq, 1, n) : n \in 0..MaxToolsOne},
            parallel : BOOLEAN,
            max_workers : 1..MaxWorkers,
            timeout : {DefaultTimeout},
            retry : 0..MaxRetry,
            critical : BOOLEAN,
            min_success : 0..MaxMinSuccess] :
        s.parallel \/ s.max_workers = 1}
get_phases_one == {<<[name |-> PhaseNameAt[1]] @@ s>> : s \in PhaseSettingsOne}

\* What the launched subprocess does: exits with a code, outlives the timeout,
\* or cannot be launched at all.
\* `text` is what the process wrote to stderr, or the text of the OSError.
ExitCodes == {0, 1}
ProcBehaviours ==
    {[kind |-> "exit", code |-> c, text |-> IF c = 0 THEN "" ELSE "err"] : c \in ExitCodes}
        \cup {[kind |-> "timeout", code |-> 0, text |-> ""],
              [kind |-> "oserror", code |-> 0, text |-> "oserror"]}

\* The inputs of SpecTool: any exit code or fatal signal, any captured stderr,
\* any OSError text, two timeouts.
Timeouts == {1, DefaultTimeout}
StderrTexts == {"", "err", "warn"}
OSErrorTexts == {"No such file or directory", "Permission denied"}
ProcBehavioursWide ==
    [kind : {"exit"}, code : 0..MaxExitCode, text : StderrTexts]
        \cup [kind : {"signal"}, code : 1..MaxSignal, text : StderrTexts]
        \cup {[kind |-> "timeout", code |-> 0, text |-> ""]}
        \cup [kind : {"oserror"}, code : {0}, text : OSErrorTexts]
\* A phase with the default settings and the given timeout.
default_phase(timeout) ==
    [name |-> PhaseNameAt[1], tools |-> <<"a">>, parallel |-> FALSE,
     max_workers |-> DefaultMaxWorkers, timeout |-> timeout, retry |-> DefaultRetry,
     critical |-> TRUE, min_success |-> 0]

\* ------------------------------------------------------------ pure helpers
\* run_tool_subprocess: (success, stdout, stderr, returncode) for what the
\* subprocess did.  stdout/stderr are kept as tags.
\* Faulty variants of run_tool_subprocess: a non-zero exit code is reported as
\* -1 / the timeout is reported with exit code 1 / an OSError escapes the call.
run_tool_subprocess_code_lost(beh, timeout) ==
    CASE beh.kind \in {"exit", "signal"} ->
            [success |-> (beh.kind = "exit" /\ beh.code = 0),
             stdout |-> "out",
             stderr |-> beh.text,
             returncode |-> IF beh.kind = "exit" /\ beh.code = 0 THEN 0 ELSE -1]
      [] beh.kind = "timeout" ->
            [success |-> FALSE, stdout |-> "",
             stderr |-> <<"Timed out after", timeout>>, returncode |-> -1]
      [] OTHER ->
            [success |-> FALSE, stdout |-> "",
             stderr |-> beh.text, returncode |-> -1]
run_tool_subprocess_timeout_as_1(beh, timeout) ==
    CASE beh.kind \in {"exit", "signal"} ->
            [success |-> (beh.kind = "exit" /\ beh.code = 0),
             stdout |-> "out",
             stderr |-> beh.text,
             returncode |-> IF beh.kind = "signal" THEN 0 - beh.code ELSE beh.code]
      [] beh.kind = "timeout" ->
            [success |-> FALSE, stdout |-> "",
             stderr |-> <<"Timed out after", timeout>>, returncode |-> 1]
      [] OTHER ->
            [success |-> FALSE, stdout |-> "",
             stderr |-> beh.text, returncode |-> -1]
run_tool_subprocess_oserror_escapes(beh, timeout) ==
    CASE beh.kind \in {"exit", "signal"} ->
            [success |-> (beh.kind = "exit" /\ beh.code = 0),
             stdout |-> "out",
             stderr |-> beh.text,
             returncode |-> IF beh.kind = "signal" THEN 0 - beh.code ELSE beh.code]
      [] beh.kind = "timeout" ->
            [success |-> FALSE, stdout |-> "",
             stderr |-> <<"Timed out after", timeout>>, returncode |-> -1]
      [] OTHER ->
            [exception |-> beh.text]

\* A process ended by signal n has result.returncode = -n.
returncode_of(beh) == IF beh.kind = "signal" THEN 0 - beh.code ELSE beh.code

run_tool_subprocess(beh, timeout) ==
    CASE beh.kind \in {"exit", "signal"} ->
            [success |-> (returncode_of(beh) = 0),
             stdout |-> "out",
             stderr |-> beh.text,
             returncode |-> returncode_of(beh)]
      [] beh.kind = "timeout" ->
            [success |-> FALSE, stdout |-> "",
             stderr |-> <<"Timed out after", timeout>>, returncode |-> -1]
      [] OTHER ->
            [success |-> FALSE, stdout |-> "",
             stderr |-> beh.text, returncode |-> -1]

\* error_msg = f"{tool} failed (code {returncode})" [+ f": {stderr.strip()}"]
error_msg(tool, r) == [tool |-> tool, code |-> r.returncode, stderr |-> r.stderr]

\* {"tool": tool, "success": success}
tool_result(tool, success) == [tool |-> tool, success |-> success]

\* sum(1 for r in phase_results if r["success"])
successful(rs) == Cardinality({j \in 1..Len(rs) : rs[j].success})

\* Faulty variant of DictSet: a new key is put in front.
DictSet_in_front(d, k, v) == <<<<k, v>>>> \o d

\* An insertion-ordered dict as a sequence of <<key, value>>: d[k] = v.
DictKeys(d) == [j \in 1..Len(d) |-> d[j][1]]
DictHas(d, k) == \E j \in 1..Len(d) : d[j][1] = k
DictGet(d, k) == d[CHOOSE j \in 1..Len(d) : d[j][1] = k][2]
DictSet(d, k, v) ==
    IF DictHas(d, k)
    THEN [j \in 1..Len(d) |-> IF d[j][1] = k THEN <<k, v>> ELSE d[j]]
    ELSE Append(d, <<k, v>>)

\* ------------------------------------------------- configuration (config.py)
\* A dict is a function on the keys it has; an Optional is <<>> or <<value>>.
\* The raw value of a config file: sections workflow, defaults, phases, each
\* of which may be missing; a phase may lack its name or set max_workers.
OptField(key, values) == {<<>>} \cup {[k \in {key} |-> v] : v \in values}
RawMaxWorkers == (0 - 1)..MaxWorkers
ConfigNames == {PhaseNameAt[k] : k \in 1..MaxPhases}
RawPhases ==
    {[tools |-> <<"a">>] @@ n @@ w :
        n \in OptField("name", ConfigNames), w \in OptField("max_workers", RawMaxWorkers)}
RawPhaseLists == UNION {[1..n -> RawPhases] : n \in 0..MaxPhases}
RawConfigs ==
    {w @@ d @@ p :
        w \in OptField("workflow", {[name |-> ""]}),
        d \in OptField("defaults", OptField("max_workers", RawMaxWorkers)),
        p \in OptField("phases", RawPhaseLists)}

\* config.py:20-27 and 30-46 (the sections that the phases depend on).
DEFAULT_PHASE_SETTINGS ==
    [parallel |-> FALSE, max_workers |-> DefaultMaxWorkers, timeout |-> DefaultTimeout,
     retry |-> DefaultRetry, critical |-> TRUE, min_success |-> 0]
DEFAULT_CONFIG ==
    [workflow |-> [name |-> "Unnamed Workflow"],
     defaults |-> DEFAULT_PHASE_SETTINGS,
     phases |-> <<>>]

\* _apply_defaults(config, DEFAULT_CONFIG), lines 100-110: a section that is a
\* dict is merged with the default section, any other value replaces it.
apply_defaults(config) ==
    [key \in DOMAIN DEFAULT_CONFIG |->
        IF key \notin DOMAIN config THEN DEFAULT_CONFIG[key]
        ELSE IF key = "phases" THEN config[key]
        ELSE config[key] @@ DEFAULT_CONFIG[key]]

\* Faulty variant of validate_phase_settings: a bound of 0 passes.
validate_phase_settings_allows_zero(settings) ==
    IF "max_workers" \in DOMAIN settings /\ settings.max_workers < 0
    THEN "max_workers must be a positive integer"
    ELSE ""

\* _validate_phase_settings, lines 185-213: the ConfigError it raises, "" if none.
validate_phase_settings(settings) ==
    IF "max_workers" \in DOMAIN settings /\ settings.max_workers < 1
    THEN "max_workers must be a positive integer"
    ELSE IF "timeout" \in DOMAIN settings /\ settings.timeout <= 0
    THEN "timeout must be a positive number"
    ELSE IF "min_success" \in DOMAIN settings /\ settings.min_success < 0
    THEN "min_success must be a non-negative integer"
    ELSE IF "retry" \in DOMAIN settings /\ settings.retry < 0
    THEN "retry must be a non-negative integer"
    ELSE ""

\* Faulty variant of validate_phase_list: a name seen before is accepted.
RECURSIVE validate_phase_list_any_name(_, _, _)
validate_phase_list_any_name(phase_list, i, phase_names) ==
    IF i > Len(phase_list) THEN ""
    ELSE LET phase == phase_list[i] IN
         IF "name" \notin DOMAIN phase THEN "phases[i].name is required"
         ELSE IF "tools" \notin DOMAIN phase THEN "phases[i].tools is required"
         ELSE IF validate_phase_settings(phase) # "" THEN validate_phase_settings(phase)
         ELSE validate_phase_list_any_name(phase_list, i + 1, phase_names \cup {phase.name})

\* validate_config, lines 151-170: the loop over the phases from index i on,
\* phase_names being the names seen so far.
RECURSIVE validate_phase_list(_, _, _)
validate_phase_list(phase_list, i, phase_names) ==
    IF i > Len(phase_list) THEN ""
    ELSE LET phase == phase_list[i] IN
         IF "name" \notin DOMAIN phase THEN "phases[i].name is required"
         ELSE IF phase.name \in phase_names THEN "Duplicate phase name"
         ELSE IF "tools" \notin DOMAIN phase THEN "phases[i].tools is required"
         ELSE IF validate_phase_settings(phase) # "" THEN validate_phase_settings(phase)
         ELSE validate_phase_list(phase_list, i + 1, phase_names \cup {phase.name})

\* validate_config, lines 113-182: the ConfigError it raises, "" if none.
validate_config(config) ==
    IF "workflow" \notin DOMAIN config \/ "phases" \notin DOMAIN config
    THEN "Missing required configuration field"
    ELSE IF "name" \notin DOMAIN config.workflow \/ config.workflow.name = ""
    THEN "workflow.name is required"
    ELSE IF "defaults" \in DOMAIN config /\ validate_phase_settings(config.defaults) # ""
    THEN validate_phase_settings(config.defaults)
    ELSE IF Len(config.phases) = 0
    THEN "phases must contain at least one phase"
    ELSE validate_phase_list(config.phases, 1, {})

\* get_phases(config), lines 240-251: each phase over the defaults section
\* over DEFAULT_PHASE_SETTINGS.
get_phases_from(config) ==
    [i \in 1..Len(config.phases) |->
        config.phases[i]
            @@ (IF "defaults" \in DOMAIN config THEN config.defaults
                ELSE DEFAULT_PHASE_SETTINGS)
            @@ DEFAULT_PHASE_SETTINGS]

\* The files load_config may be pointed at: Path.cwd() / "config.yaml" (line
\* 76) and one other path.  A file is missing, is no YAML, or holds a config.
DefaultConfigPath == "config.yaml"
ConfigPaths == {DefaultConfigPath, "other.yaml"}
yaml_file(config) == [kind |-> "yaml", config |-> config]
OtherFiles ==
    {[kind |-> "missing"],
     yaml_file([phases |-> <<[name |-> "p1", tools |-> <<"a">>]>>]),
     yaml_file([phases |-> <<[name |-> "p1", tools |-> <<"a">>, max_workers |-> 0]>>])}
ConfigFiles ==
    {[kind |-> "missing"], [kind |-> "invalid yaml"]} \cup {yaml_file(c) : c \in RawConfigs}

\* The config a runner's resolved phase list ps was loaded from.
config_of(ps) ==
    [workflow |-> [name |-> "wf"], defaults |-> DEFAULT_PHASE_SETTINGS, phases |-> ps]

\* -------------------------------------------------------------------- state
VARIABLES
    phases,         \* self.phases: the resolved phase list
    pc,             \* where the main thread is in run()
    cur,            \* index in self.phases of the phase run_phase works on
    status,         \* per task of the current phase: queued/running/finished/collected
    fut,            \* per task: the tuple its subprocess call returned (once finished)
    proc,           \* history: per task, what its subprocess did
    err_mark,       \* history: len(self.errors) when run_phase entered the current phase
    snapshot,       \* as_completed: futures already finished when it was called
    waiterq,        \* as_completed: futures finished since, in completion order
    phase_results,  \* the local list `results` of _run_sequential/_run_parallel
    results,        \* self.results (insertion-ordered dict)
    errors,         \* self.errors
    exit_code,      \* what run() returned (None before it returns)
    raised,         \* which statement raised the exception run() caught, if any
    invoked,        \* history: <<phase index, task index>> of every subprocess launch
    observed,       \* history: <<phase index, task index, success>> seen by the main thread
    config_files,   \* the file system: what is at each path of ConfigPaths
    config_cache,   \* config.py's _config_cache (Optional)
    loaded          \* history: the last call into config.py and its outcome

config_vars == <<config_files, config_cache, loaded>>

vars == <<phases, pc, cur, status, fut, proc, err_mark, snapshot, waiterq,
          phase_results, results, errors, exit_code, raised, invoked, observed,
          config_files, config_cache, loaded>>

None == "None"

\* BaseWorkflowRunner.__init__, lines 55-58: the config was loaded from the
\* default path with load_config(), which cached it, and resolved to phases.
ConfigLoaded ==
    /\ config_files = [path \in ConfigPaths |->
                          IF path = DefaultConfigPath THEN yaml_file(config_of(phases))
                          ELSE [kind |-> "missing"]]
    /\ config_cache = <<config_of(phases)>>
    /\ loaded = [call |-> "load_config", config_path |-> <<>>, use_cache |-> TRUE,
                 raised |-> "", value |-> <<config_of(phases)>>]

\* The runner as constructed, before run() is called.
Constructed ==
    /\ ConfigLoaded
    /\ pc = "validate"
    /\ cur = 0
    /\ status = <<>>
    /\ fut = <<>>
    /\ proc = <<>>
    /\ err_mark = 0
    /\ snapshot = {}
    /\ waiterq = <<>>
    /\ phase_results = <<>>
    /\ results = <<>>
    /\ errors = <<>>
    /\ exit_code = None
    /\ raised = None
    /\ invoked = <<>>
    /\ observed = <<>>

Init ==
    /\ phases \in UNION {get_phases(n) : n \in 1..MaxPhases}
    /\ Constructed

phase_config == phases[cur]
tools == phase_config.tools
Running == {j \in 1..Len(status) : status[j] = "running"}
Queued == {j \in 1..Len(status) : status[j] = "queued"}
Min(a, b) == IF a < b THEN a ELSE b
SetMin(S) == CHOOSE x \in S : \A y \in S : x <= y

\* Faulty variant of finish_failure: the failure summary is printed, 0 returned.
finish_failure_returns_0(by) ==
    /\ pc' = "returned"
    /\ raised' = by
    /\ exit_code' = 0

\* _finish_failure(e): print the failure summary, return 1.  `by` names the
\* raise statement the exception came from.
finish_failure(by) ==
    /\ pc' = "returned"
    /\ raised' = by
    /\ exit_code' = 1

\* _finish_failure, lines 270-271: the phase the summary names as the one the
\* run failed at, the last key of self.results; <<>> when it prints no such line.
failed_at_phase ==
    IF results # <<>> THEN <<DictKeys(results)[Len(results)]>> ELSE <<>>

\* ------------------------------------------------------------------ actions
\* run(), lines 67-79: validate_requirements() and validate_environment().
\* The environment decides whether the requirements and the variables are there.
run_validate ==
    /\ pc = "validate"
    /\ \E valid \in BOOLEAN, env_set \in BOOLEAN :
          IF ~valid
          THEN /\ pc' = "returned"
               /\ exit_code' = 1
               /\ UNCHANGED <<raised, cur>>
          ELSE IF ~env_set
          THEN /\ finish_failure("check_env")
               /\ UNCHANGED cur
          ELSE /\ pc' = "loop"
               /\ cur' = 1
               /\ UNCHANGED <<exit_code, raised>>
    /\ UNCHANGED <<phases, status, fut, proc, err_mark, snapshot, waiterq,
                   phase_results, results, errors, invoked, observed>>
    /\ UNCHANGED config_vars

\* Faulty variant of skip_empty_phase: the skip returns without recording the phase.
skip_empty_phase_unrecorded(d, phase_name) == d

\* run_phase(), lines 113-117: an empty phase records an empty result list.
skip_empty_phase(d, phase_name) == DictSet(d, phase_name, <<>>)

\* run_phase(), lines 101-123: read the settings, skip an empty phase, or
\* enter the strategy.  _run_parallel submits every tool at once (lines 182-187).
run_phase ==
    /\ pc = "loop"
    /\ cur <= Len(phases)
    /\ IF tools = <<>>
       THEN /\ results' = skip_empty_phase(results, phase_config.name)
            /\ cur' = cur + 1
            /\ UNCHANGED <<pc, status, fut, proc, phase_results>>
       ELSE /\ status' = [j \in 1..Len(tools) |-> "queued"]
            /\ fut' = [j \in 1..Len(tools) |-> None]
            /\ proc' = [j \in 1..Len(tools) |-> None]
            /\ phase_results' = <<>>
            /\ pc' = IF phase_config.parallel THEN "submitted" ELSE "seq"
            /\ UNCHANGED <<results, cur>>
    /\ err_mark' = Len(errors)
    /\ snapshot' = {}
    /\ waiterq' = <<>>
    /\ UNCHANGED <<phases, errors, exit_code, raised, invoked, observed>>
    /\ UNCHANGED config_vars

\* _run_sequential, line 154: the next tool's subprocess is launched.
run_sequential_launch ==
    /\ pc = "seq"
    /\ Running = {}
    /\ Queued # {}
    /\ LET j == SetMin(Queued) IN
          /\ status' = [status EXCEPT ![j] = "running"]
          /\ invoked' = Append(invoked, <<cur, j>>)
    /\ UNCHANGED <<phases, pc, cur, fut, proc, err_mark, snapshot, waiterq,
                   phase_results, results, errors, exit_code, raised, observed>>
    /\ UNCHANGED config_vars

\* Faulty variant of record_failure: only the first failure of a phase is kept.
record_failure_once(errs, tool, r) ==
    IF r.success \/ Len(errs) > err_mark THEN errs ELSE Append(errs, error_msg(tool, r))

\* Lines 161-166 and 197-202: a failed tool adds its message to self.errors.
record_failure(errs, tool, r) ==
    IF r.success THEN errs ELSE Append(errs, error_msg(tool, r))

\* Faulty variant of after_return: a failed tool is queued again while the
\* phase's retry setting is positive.
after_return_retrying(retry, success) ==
    IF ~success /\ retry > 0 THEN "queued" ELSE "collected"

\* The state of a tool once its outcome was handled: the loops of
\* _run_sequential (150-171) and _run_parallel (190-209) go on to the next
\* tool whatever the outcome and the phase's retry setting.
after_return(retry, success) == "collected"

\* Faulty variants of seq_fail_fast: the raise is lost / the raise ignores `critical`.
seq_fail_fast_never(critical) == FALSE
seq_fail_fast_always(critical) == TRUE

\* Whether _run_sequential raises after a failed tool (line 168).
seq_fail_fast(critical) == critical

\* _run_sequential, lines 154-173: the subprocess call returns and the loop
\* body handles the tuple; after the last tool the list is returned.
run_sequential_return ==
    /\ pc = "seq"
    /\ \E j \in Running, beh \in ProcBehaviours :
          LET r == run_tool_subprocess(beh, phase_config.timeout)
              tool == tools[j]
          IN  /\ status' = [status EXCEPT ![j] = after_return(phase_config.retry, r.success)]
              /\ fut' = [fut EXCEPT ![j] = r]
              /\ proc' = [proc EXCEPT ![j] = beh]
              /\ observed' = Append(observed, <<cur, j, r.success>>)
              /\ errors' = record_failure(errors, tool, r)
              /\ IF ~r.success /\ seq_fail_fast(phase_config.critical)
                 THEN /\ finish_failure("tool_failed")
                      /\ UNCHANGED phase_results
                 ELSE /\ phase_results' = Append(phase_results, tool_result(tool, r.success))
                      /\ pc' = IF j = Len(tools) THEN "threshold" ELSE "seq"
                      /\ UNCHANGED <<exit_code, raised>>
    /\ UNCHANGED <<phases, cur, err_mark, snapshot, waiterq, results, invoked>>
    /\ UNCHANGED config_vars

\* Faulty variants of pool_size: one worker per tool, max_workers ignored /
\* a pool without a worker.
pool_size_per_tool(n, max_workers) == n
pool_size_none(n, max_workers) == 0

\* ProcessPoolExecutor(max_workers=min(len(tools), max_workers)), line 182.
pool_size(n, max_workers) == Min(n, max_workers)

\* A free worker process of the pool takes the oldest queued call and launches
\* its subprocess (also while the executor is shutting down with wait=True).
worker_start ==
    /\ pc \in {"submitted", "collect", "shutdown"}
    /\ Queued # {}
    /\ Cardinality(Running) < pool_size(Len(tools), phase_config.max_workers)
    /\ LET j == SetMin(Queued) IN
          /\ status' = [status EXCEPT ![j] = "running"]
          /\ invoked' = Append(invoked, <<cur, j>>)
    /\ UNCHANGED <<phases, pc, cur, fut, proc, err_mark, snapshot, waiterq,
                   phase_results, results, errors, exit_code, raised, observed>>
    /\ UNCHANGED config_vars

\* A worker's run_tool_subprocess call returns: the future is finished.  Once
\* as_completed is waiting, its waiter records the futures in completion order.
worker_finish ==
    /\ pc \in {"submitted", "collect", "shutdown"}
    /\ \E j \in Running, beh \in ProcBehaviours :
          /\ status' = [status EXCEPT ![j] = "finished"]
          /\ fut' = [fut EXCEPT ![j] = run_tool_subprocess(beh, phase_config.timeout)]
          /\ proc' = [proc EXCEPT ![j] = beh]
          /\ waiterq' = IF pc = "collect" THEN Append(waiterq, j) ELSE waiterq
    /\ UNCHANGED <<phases, pc, cur, err_mark, snapshot, phase_results, results,
                   errors, exit_code, raised, invoked, observed>>
    /\ UNCHANGED config_vars

\* as_completed(future_to_tool), line 190: the futures already finished are
\* yielded first (in set order), the others as they finish.
as_completed ==
    /\ pc = "submitted"
    /\ pc' = "collect"
    /\ snapshot' = {j \in 1..Len(status) : status[j] = "finished"}
    /\ UNCHANGED <<phases, cur, status, fut, proc, err_mark, waiterq, phase_results,
                   results, errors, exit_code, raised, invoked, observed>>
    /\ UNCHANGED config_vars

\* The futures as_completed may yield next.
Yieldable ==
    IF snapshot # {} THEN snapshot
    ELSE IF waiterq # <<>> THEN {Head(waiterq)}
    ELSE {}

\* Faulty variant of as_completed_exhausted: the loop stops at the first completed future.
as_completed_first(st, j) == TRUE

\* The as_completed loop ends once every future has been yielded; j is the
\* future being handled.
as_completed_exhausted(st, j) == \A k \in 1..Len(st) : k = j \/ st[k] = "collected"

\* Faulty variant of collect_result: the newest outcome is put in front.
collect_result_in_front(rs, x) == <<x>> \o rs

\* results.append({"tool": tool, "success": success}), line 204.
collect_result(rs, x) == Append(rs, x)

\* _run_parallel, lines 190-211: the loop body for the next completed future;
\* after the last one the executor is shut down and the list returned.
run_parallel_collect ==
    /\ pc = "collect"
    /\ \E j \in Yieldable :
          LET r == fut[j]
              tool == tools[j]
          IN  /\ status' = [status EXCEPT ![j] = after_return(phase_config.retry, r.success)]
              /\ snapshot' = snapshot \ {j}
              /\ waiterq' = IF snapshot # {} THEN waiterq ELSE Tail(waiterq)
              /\ observed' = Append(observed, <<cur, j, r.success>>)
              /\ errors' = record_failure(errors, tool, r)
              /\ phase_results' = collect_result(phase_results, tool_result(tool, r.success))
              /\ pc' = IF as_completed_exhausted(status, j)
                       THEN "threshold" ELSE "collect"
    /\ UNCHANGED <<phases, cur, fut, proc, err_mark, results, exit_code, raised, invoked>>
    /\ UNCHANGED config_vars

\* Faulty variants of threshold_failed: the threshold is off by one / compared with > /
\* tested without the all-succeeded case.
threshold_failed_off_by_one(n_ok, total, min_success) ==
    ~(n_ok = total) /\ ~(n_ok >= min_success - 1)
threshold_failed_strict(n_ok, total, min_success) ==
    ~(n_ok = total) /\ ~(n_ok > min_success)
threshold_failed_no_full(n_ok, total, min_success) ==
    ~(n_ok >= min_success)

\* Faulty variant of threshold_failed: only a critical phase raises.
threshold_failed_if_critical(n_ok, total, min_success) ==
    phase_config.critical /\ ~(n_ok = total) /\ ~(n_ok >= min_success)

\* The threshold test of run_phase (lines 131-135): TRUE when the phase raises.
threshold_failed(n_ok, total, min_success) ==
    ~(n_ok = total) /\ ~(n_ok >= min_success)

\* run_phase(), lines 125-142: record the phase's results, then check the
\* minimum-success threshold; back in run() the loop goes on to the next phase.
run_phase_check ==
    /\ pc = "threshold"
    /\ results' = DictSet(results, phase_config.name, phase_results)
    /\ IF threshold_failed(successful(phase_results), Len(tools), phase_config.min_success)
       THEN /\ finish_failure("threshold")
            /\ UNCHANGED cur
       ELSE /\ pc' = "loop"
            /\ cur' = cur + 1
            /\ UNCHANGED <<exit_code, raised>>
    /\ UNCHANGED <<phases, status, fut, proc, err_mark, snapshot, waiterq,
                   phase_results, errors, invoked, observed>>
    /\ UNCHANGED config_vars

\* run(), lines 82-86: the loop is over; _finish_success() returns 0.
finish_success ==
    /\ pc = "loop"
    /\ cur > Len(phases)
    /\ pc' = "returned"
    /\ exit_code' = 0
    /\ UNCHANGED <<phases, cur, status, fut, proc, err_mark, snapshot, waiterq,
                   phase_results, results, errors, raised, invoked, observed>>
    /\ UNCHANGED config_vars

Next ==
    \/ run_validate
    \/ run_phase
    \/ run_sequential_launch
    \/ run_sequential_return
    \/ worker_start
    \/ worker_finish
    \/ as_completed
    \/ run_parallel_collect
    \/ run_phase_check
    \/ finish_success

Spec == Init /\ [][Next]_vars

\* --------------------------------------------------------------- progress
\* The main thread keeps executing run(); a free pool worker takes a queued
\* call; every launched subprocess exits or reaches its timeout
\* (subprocess.run(..., timeout=timeout), runner.py:106-112).
\* Every step of run() changes the main thread's position, the phase index or
\* a task's status.
progress == <<pc, cur, status>>

Fairness ==
    /\ WF_progress(run_validate)
    /\ WF_progress(run_phase)
    /\ WF_progress(run_sequential_launch)
    /\ WF_progress(run_sequential_return)
    /\ WF_progress(worker_start)
    /\ WF_progress(worker_finish)
    /\ WF_progress(as_completed)
    /\ WF_progress(run_parallel_collect)
    /\ WF_progress(run_phase_check)
    /\ WF_progress(finish_success)

SpecLive == Init /\ [][Next]_vars /\ Fairness

\* ----------------------------------------------- one phase, wider settings
InitOne ==
    /\ phases \in get_phases_one
    /\ Constructed

SpecOne == InitOne /\ [][Next]_vars

\* --------------------------------------------------- an external interrupt
\* KeyboardInterrupt is raised in the main thread.  It is no Exception, so
\* neither run_tool_subprocess (119-122) nor run() (88) catches it.  In
\* subprocess.run the child is killed and the exception re-raised; leaving the
\* `with ProcessPoolExecutor` block (182) shuts the executor down with
\* wait=True, so the calls already submitted still run to their end.
keyboard_interrupt ==
    /\ pc \in {"validate", "loop", "seq", "submitted", "collect", "threshold"}
    /\ raised' = "KeyboardInterrupt"
    /\ IF pc \in {"submitted", "collect"}
       THEN /\ pc' = "shutdown"
            /\ UNCHANGED status
       ELSE /\ pc' = "cancelled"
            /\ status' = [j \in 1..Len(status) |->
                             IF status[j] = "running" THEN "killed" ELSE status[j]]
    /\ UNCHANGED <<phases, cur, fut, proc, err_mark, snapshot, waiterq, phase_results,
                   results, errors, exit_code, invoked, observed>>
    /\ UNCHANGED config_vars

\* The executor's shutdown(wait=True) returns once no call is pending; the
\* exception then reaches the handler of __main__ (295-297).
executor_shutdown ==
    /\ pc = "shutdown"
    /\ Running = {}
    /\ Queued = {}
    /\ pc' = "cancelled"
    /\ UNCHANGED <<phases, cur, status, fut, proc, err_mark, snapshot, waiterq,
                   phase_results, results, errors, exit_code, raised, invoked, observed>>
    /\ UNCHANGED config_vars

\* __main__ (292-303): the status the process exits with, None while it runs.
\* sys.exit(main()) passes on what run() returned; the KeyboardInterrupt
\* handler calls sys.exit(1).
main_exit_status ==
    CASE pc = "returned" -> exit_code
      [] pc = "cancelled" -> 1
      [] OTHER -> None

NextInt ==
    \/ Next
    \/ keyboard_interrupt
    \/ executor_shutdown

SpecInt == Init /\ [][NextInt]_vars

\* ------------------------------------------------- the task invoker alone
\* One call of run_tool_subprocess: the subprocess behaviour and the timeout
\* are the inputs.
InitTool ==
    /\ \E t \in Timeouts : phases = <<default_phase(t)>>
    /\ proc \in {<<b>> : b \in ProcBehavioursWide}
    /\ pc = "tool"
    /\ cur = 1
    /\ status = <<"running">>
    /\ fut = <<None>>
    /\ err_mark = 0
    /\ snapshot = {}
    /\ waiterq = <<>>
    /\ phase_results = <<>>
    /\ results = <<>>
    /\ errors = <<>>
    /\ exit_code = None
    /\ raised = None
    /\ invoked = <<<<1, 1>>>>
    /\ observed = <<>>
    /\ ConfigLoaded

tool_call ==
    /\ pc = "tool"
    /\ fut' = <<run_tool_subprocess(proc[1], phase_config.timeout)>>
    /\ status' = <<"finished">>
    /\ pc' = "tool_done"
    /\ UNCHANGED <<phases, cur, proc, err_mark, snapshot, waiterq, phase_results,
                   results, errors, exit_code, raised, invoked, observed>>
    /\ UNCHANGED config_vars

SpecTool == InitTool /\ [][tool_call]_vars

\* ------------------------------------------ the configuration module alone
\* load_config, lines 74-92: find the file, parse it, apply the defaults and
\* validate; the ConfigError raised ("" if none) and the config returned.
read_config(config_path) ==
    LET path == IF config_path = <<>> THEN DefaultConfigPath ELSE config_path[1]
        file == config_files[path]
    IN  IF file.kind = "missing"
        THEN [raised |-> "Configuration file not found", value |-> <<>>]
        ELSE IF file.kind # "yaml"
        THEN [raised |-> "Invalid YAML in config file", value |-> <<>>]
        ELSE LET config == apply_defaults(file.config) IN
             IF validate_config(config) # ""
             THEN [raised |-> validate_config(config), value |-> <<>>]
             ELSE [raised |-> "", value |-> <<config>>]

\* Faulty variant of load_config: a load with use_cache=False fills the cache too.
load_config_always_caches(config_path, use_cache) ==
    IF use_cache /\ config_cache # <<>>
    THEN [raised |-> "", value |-> config_cache, cache |-> config_cache]
    ELSE LET r == read_config(config_path) IN
         [raised |-> r.raised, value |-> r.value,
          cache |-> IF r.raised = "" THEN r.value ELSE config_cache]

\* load_config(config_path, use_cache), lines 55-97: what it raises or
\* returns, and _config_cache afterwards.
load_config(config_path, use_cache) ==
    IF use_cache /\ config_cache # <<>>
    THEN [raised |-> "", value |-> config_cache, cache |-> config_cache]
    ELSE LET r == read_config(config_path) IN
         [raised |-> r.raised, value |-> r.value,
          cache |-> IF use_cache /\ r.raised = "" THEN r.value ELSE config_cache]

runner_state == <<cur, status, fut, proc, err_mark, snapshot, waiterq, phase_results,
                  results, errors, exit_code, raised, invoked, observed>>

\* Some caller calls load_config.
load_config_call ==
    /\ \E config_path \in {<<>>} \cup {<<path>> : path \in ConfigPaths}, use_cache \in BOOLEAN :
          LET r == load_config(config_path, use_cache) IN
          /\ config_cache' = r.cache
          /\ loaded' = [call |-> "load_config", config_path |-> config_path,
                        use_cache |-> use_cache, raised |-> r.raised, value |-> r.value]
    /\ UNCHANGED <<phases, pc, config_files, runner_state>>

\* clear_cache(), lines 306-309.
clear_cache ==
    /\ config_cache' = <<>>
    /\ loaded' = [call |-> "clear_cache"]
    /\ UNCHANGED <<phases, pc, config_files, runner_state>>

\* BaseWorkflowRunner.__init__, lines 55-61: load_config(), then get_phases;
\* a ConfigError is printed and raised again.
runner_init ==
    /\ pc = "config"
    /\ LET r == load_config(<<>>, TRUE) IN
          /\ config_cache' = r.cache
          /\ loaded' = [call |-> "load_config", config_path |-> <<>>,
                        use_cache |-> TRUE, raised |-> r.raised, value |-> r.value]
          /\ IF r.raised # ""
             THEN /\ pc' = "config_error"
                  /\ UNCHANGED phases
             ELSE /\ pc' = "validate"
                  /\ phases' = get_phases_from(r.value[1])
    /\ UNCHANGED <<config_files, runner_state>>

\* The module as imported (line 52), no runner yet, any files at the two paths.
InitConfig ==
    /\ config_files \in {[path \in ConfigPaths |->
                            IF path = DefaultConfigPath THEN f ELSE g] :
                         f \in ConfigFiles, g \in OtherFiles}
    /\ config_cache = <<>>
    /\ loaded = [call |-> "import"]
    /\ phases = <<>>
    /\ pc = "config"
    /\ cur = 0
    /\ status = <<>>
    /\ fut = <<>>
    /\ proc = <<>>
    /\ err_mark = 0
    /\ snapshot = {}
    /\ waiterq = <<>>
    /\ phase_results = <<>>
    /\ results = <<>>
    /\ errors = <<>>
    /\ exit_code = None
    /\ raised = None
    /\ invoked = <<>>
    /\ observed = <<>>

NextConfig ==
    \/ load_config_call
    \/ clear_cache
    \/ runner_init

SpecConfig == InitConfig /\ [][NextConfig]_vars

\* ------------------------------------------------- vocabulary of the claims
PhaseIds == 1..Len(phases)
NTools(k) == Len(phases[k].tools)
Sequential(k) == ~phases[k].parallel
\* self.results has an entry for phase k / that entry.
Recorded(k) == DictHas(results, phases[k].name)
ResultOf(k) == DictGet(results, phases[k].name)
\* run() is past phase k: it went on to the next phase, or returned while in k.
PhaseOver(k) == cur > k \/ (cur = k /\ pc = "returned")
Aborted == pc = "returned" /\ exit_code = 1
AbortedIn(k) == Aborted /\ cur = k
\* The task indices of phase k in launch order / the outcomes the main thread
\* saw for phase k, in the order it saw them.
IsPhase(k, e) == e[1] = k
InvokedTasks(k) ==
    LET es == SelectSeq(invoked, LAMBDA e : IsPhase(k, e))
    IN  [j \in 1..Len(es) |-> es[j][2]]
ObservedOf(k) == SelectSeq(observed, LAMBDA e : IsPhase(k, e))
SuccessCount(k) == Cardinality({j \in 1..Len(ObservedOf(k)) : ObservedOf(k)[j][3]})
UpTo(m) == [j \in 1..m |-> j]
LaterLaunch(k) == \E j \in 1..Len(invoked) : invoked[j][1] > k

\* ---------------------------------------------------------------- the claims

\* C1 (as stated): when a non-empty phase with critical=true is over with
\* successful_count < min_success, the run has aborted: no task of a later phase
\* was launched and run() does not return 0.
C1_CriticalBelowThresholdAborts ==
    \A k \in PhaseIds :
        (phases[k].critical /\ NTools(k) > 0 /\ PhaseOver(k)
            /\ SuccessCount(k) < phases[k].min_success)
        => (AbortedIn(k) /\ ~LaterLaunch(k))

\* C1 (amended): when a phase with critical=true is over with
\* successful_count < min_success and not every declared task succeeded, the run
\* has aborted in that phase with exit code 1 and no task of a later phase was
\* ever launched.
C1_CriticalThresholdFailureAborts ==
    \A k \in PhaseIds :
        (phases[k].critical /\ PhaseOver(k)
            /\ SuccessCount(k) < phases[k].min_success
            /\ SuccessCount(k) # NTools(k))
        => (AbortedIn(k) /\ ~LaterLaunch(k))

C1_Witness ==
    /\ raised = "threshold"
    /\ phases[cur].critical
    /\ cur < Len(phases)
    /\ NTools(cur + 1) > 0
    /\ SuccessCount(cur) > 0

\* C2: a phase with critical=false whose successful_count is below min_success
\* never aborts the run: run() is never ended by the threshold check of a
\* non-critical phase.
C2_NonCriticalThresholdNeverAborts ==
    ~(Aborted /\ cur \in PhaseIds /\ raised = "threshold" /\ ~phases[cur].critical)

\* C3: in a sequential phase with critical=true the tasks are invoked one by
\* one in declaration order, each once, and none after the first failed one:
\* with the first failure at task i exactly tasks 1..i were invoked.
C3_SequentialCriticalFailFast ==
    \A k \in PhaseIds :
        (Sequential(k) /\ phases[k].critical) =>
            /\ InvokedTasks(k) = UpTo(Len(InvokedTasks(k)))
            /\ \A j \in 1..Len(ObservedOf(k)) :
                  ~ObservedOf(k)[j][3] => InvokedTasks(k) = UpTo(ObservedOf(k)[j][2])

C3_Witness ==
    /\ cur \in PhaseIds
    /\ Sequential(cur) /\ phases[cur].critical
    /\ NTools(cur) >= 2
    /\ pc = "returned"
    /\ ObservedOf(cur) = <<<<cur, 1, FALSE>>>>
    /\ InvokedTasks(cur) = <<1>>

C5_AbortKeepsPartialResults ==
    (Aborted /\ cur \in PhaseIds) =>
        /\ DictKeys(results) = [k \in 1..cur |-> phases[k].name]
        /\ Len(ResultOf(cur)) = Len(InvokedTasks(cur))

\* C6: in a sequential phase with critical=false a failed task never ends the
\* phase: once the phase is over every declared task was invoked exactly once,
\* in declaration order, and the recorded result has one outcome per task, in
\* declaration order, whose success flag is that of the task's exit
\* (returncode = 0), so successful_count is the number of tasks that exited 0.
C6_SequentialNonCriticalRunsAll ==
    \A k \in PhaseIds :
        (Sequential(k) /\ ~phases[k].critical) =>
            /\ InvokedTasks(k) = UpTo(Len(InvokedTasks(k)))
            /\ ~(raised = "tool_failed" /\ cur = k)
            /\ (k = cur /\ pc = "threshold") =>
                  phase_results = [j \in 1..NTools(k) |->
                        tool_result(phases[k].tools[j], fut[j].returncode = 0)]
            /\ PhaseOver(k) =>
                  /\ InvokedTasks(k) = UpTo(NTools(k))
                  /\ Recorded(k)
                  /\ ResultOf(k) = [j \in 1..NTools(k) |->
                        tool_result(phases[k].tools[j], ObservedOf(k)[j][3])]
                  /\ \A j \in 1..NTools(k) : ObservedOf(k)[j][2] = j
                  /\ successful(ResultOf(k)) = SuccessCount(k)

C6_Witness ==
    /\ cur = 2
    /\ Sequential(1) /\ ~phases[1].critical
    /\ NTools(1) = 2
    /\ Recorded(1)
    /\ ~ResultOf(1)[1].success
    /\ ResultOf(1)[2].success

\* C7: in a parallel phase, whatever critical, max_workers and the order of
\* completions, every declared task occurrence is invoked at most once at any
\* time and, when _run_parallel returns, exactly once, with exactly one outcome
\* each: the result has len(tasks) entries, one per occurrence, and
\* successful_count is the number of tasks that succeeded.
C7_ParallelRunsAllOnce ==
    \A k \in PhaseIds :
        phases[k].parallel =>
            /\ \A i, j \in 1..Len(InvokedTasks(k)) :
                  InvokedTasks(k)[i] = InvokedTasks(k)[j] => i = j
            /\ \A i, j \in 1..Len(ObservedOf(k)) :
                  ObservedOf(k)[i][2] = ObservedOf(k)[j][2] => i = j
            /\ (k = cur /\ pc = "threshold") =>
                  /\ Len(phase_results) = NTools(k)
                  /\ {InvokedTasks(k)[j] : j \in 1..Len(InvokedTasks(k))} = 1..NTools(k)
                  /\ \A j \in 1..NTools(k) :
                        phase_results[j] =
                            tool_result(phases[k].tools[ObservedOf(k)[j][2]],
                                        fut[ObservedOf(k)[j][2]].success)
                  /\ successful(phase_results)
                        = Cardinality({j \in 1..NTools(k) : fut[j].returncode = 0})
            /\ PhaseOver(k) =>
                  /\ Recorded(k)
                  /\ Len(ResultOf(k)) = NTools(k)
                  /\ Len(InvokedTasks(k)) = NTools(k)
                  /\ successful(ResultOf(k)) = SuccessCount(k)

C7_Witness ==
    /\ pc = "threshold"
    /\ phases[cur].parallel
    /\ phases[cur].tools = <<"a", "a">>
    /\ ObservedOf(cur)[1][2] = 2
    /\ ~fut[2].success
    /\ fut[1].success

\* C8: a phase with an empty task list launches no task, whatever its
\* critical, parallel and min_success; it is recorded with an empty result, its
\* threshold never fails, and the run goes on to the next phase.
C8_EmptyPhaseVacuous ==
    \A k \in PhaseIds :
        NTools(k) = 0 =>
            /\ InvokedTasks(k) = <<>>
            /\ cur = k => pc = "loop"
            /\ cur > k => (Recorded(k) /\ ResultOf(k) = <<>>)

C8_Witness ==
    /\ NTools(1) = 0
    /\ phases[1].critical
    /\ phases[1].min_success > 0
    /\ Len(invoked) > 0
    /\ invoked[1] = <<2, 1>>

\* C9 (as stated): a non-empty phase whose min_success exceeds len(tasks) fails
\* its threshold whatever the task outcomes: the run never goes past it.
C9_UnreachableThresholdAlwaysFails ==
    \A k \in PhaseIds :
        (NTools(k) > 0 /\ phases[k].min_success > NTools(k)) => ~(cur > k)

\* C9 (amended): a non-empty phase whose min_success exceeds len(tasks) fails
\* its threshold for every combination of outcomes in which some task did not
\* succeed; when every task succeeds the phase passes (min_success is not
\* consulted then) and the run goes on.
C9_UnreachableThresholdFailsUnlessAllSucceed ==
    \A k \in PhaseIds :
        (NTools(k) > 0 /\ phases[k].min_success > NTools(k) /\ PhaseOver(k)) =>
            /\ SuccessCount(k) < NTools(k) => AbortedIn(k)
            /\ SuccessCount(k) = NTools(k) => cur > k

C9_Witness ==
    /\ raised = "threshold"
    /\ NTools(cur) = 2
    /\ phases[cur].min_success > 2
    /\ SuccessCount(cur) = 1

\* C10: a phase in which every task was attempted and
\* min_success <= successful_count < len(tasks) does not abort the run: its
\* result is recorded and the run goes on to the next phase.
C10_PartialSuccessContinues ==
    \A k \in PhaseIds :
        (PhaseOver(k) /\ Len(ObservedOf(k)) = NTools(k)
            /\ (phases[k].parallel \/ ~phases[k].critical)
            /\ phases[k].min_success <= SuccessCount(k)
            /\ SuccessCount(k) < NTools(k))
        => (cur > k /\ Recorded(k) /\ Len(ResultOf(k)) = NTools(k))

C10_Witness ==
    /\ phases[1].parallel
    /\ NTools(1) = 2
    /\ phases[1].min_success = 1
    /\ SuccessCount(1) = 1
    /\ LaterLaunch(1)

\* run_phase returned normally for phase cur - 1 and the loop of run() has not
\* entered the next phase; the entries self.errors gained during that phase.
JustCompleted == pc = "loop" /\ cur > 1
WarningsAdded == Len(errors) - err_mark

ResultsArePrefix ==
    /\ Len(results) <= Len(phases)
    /\ \A j \in 1..Len(results) : results[j][1] = phases[j].name
ResultsKept ==
    \A j \in 1..Len(results) : Len(results') >= j /\ results'[j] = results[j]

\* C12: at every point of a run the phase names recorded in self.results are,
\* in order, the names of a prefix of the phase list, whatever the phases'
\* modes, and an entry once recorded is never changed or removed.
C12_ResultsPrefixAppendOnly == [](ResultsArePrefix) /\ [][ResultsKept]_vars

C12_Witness ==
    /\ Len(results) = 2
    /\ phases[1].parallel
    /\ ~phases[2].parallel
    /\ NTools(1) = 2
    /\ NTools(2) = 2

\* C13: when run() returns it returns 0 or 1, and 0 exactly when the
\* requirements validation passed and every phase of the list was processed
\* without an abort.
C13_ExitCodeZeroIffSuccess ==
    pc = "returned" =>
        /\ exit_code \in {0, 1}
        /\ exit_code = 0 <=>
              (/\ cur = Len(phases) + 1
               /\ raised = None
               /\ \A k \in PhaseIds : Recorded(k))

C13_Witness ==
    /\ pc = "returned"
    /\ exit_code = 0
    /\ Len(phases) = 2
    /\ errors # <<>>

\* C14: run_tool_subprocess reports success exactly when the process completed
\* with exit code 0; for a process that exits with a non-zero code it reports
\* success=false, that same code and the captured stderr.
C14_SuccessIffExitZero ==
    pc = "tool_done" =>
        /\ fut[1].success <=> (proc[1].kind = "exit" /\ proc[1].code = 0)
        /\ (proc[1].kind = "exit" /\ proc[1].code # 0) =>
              /\ ~fut[1].success
              /\ fut[1].returncode = proc[1].code
              /\ fut[1].stderr = proc[1].text

C14_Witness ==
    /\ pc = "tool_done"
    /\ proc[1].kind = "exit"
    /\ proc[1].code = 3
    /\ proc[1].text = "err"

C16_FailureIsAnOutcome ==
    pc = "tool_done" =>
        /\ DOMAIN fut[1] = {"success", "stdout", "stderr", "returncode"}
        /\ fut[1].success \in BOOLEAN
        /\ ~(proc[1].kind = "exit" /\ proc[1].code = 0) => ~fut[1].success
        /\ proc[1].kind = "oserror" =>
              /\ fut[1].returncode = -1
              /\ fut[1].stderr = proc[1].text

C16_Witness ==
    /\ pc = "tool_done"
    /\ proc[1].kind = "oserror"
    /\ proc[1].text = "Permission denied"

\* C17: whatever the phase's retry setting and whatever the outcomes, no task
\* occurrence is launched twice during a run.
C17_NoRetry ==
    \A i, j \in 1..Len(invoked) : invoked[i] = invoked[j] => i = j

C17_Witness ==
    /\ pc = "returned"
    /\ phases[1].retry = 2
    /\ status = <<"collected", "collected">>
    /\ Len(invoked) = 2
    /\ proc[1].kind = "timeout"
    /\ proc[2].kind = "oserror"

\* C18: after a KeyboardInterrupt no task of a later phase is launched and the
\* process ends with a status that is neither that of a successful run (0) nor
\* that of a failed run (1).
C18_InterruptHasOwnStatus ==
    pc = "cancelled" =>
        /\ \A j \in 1..Len(invoked) : invoked[j][1] <= cur
        /\ main_exit_status # 0
        /\ main_exit_status # 1

\* C19: phases never overlap: while the main thread is between phases or in the
\* threshold check no task is in flight, tasks are launched in phase order, and
\* a task of a phase is launched only after every earlier phase was recorded
\* and its threshold checked.
C19_PhasesNeverOverlap ==
    /\ pc \notin {"seq", "submitted", "collect"} => Running = {}
    /\ \A i, j \in 1..Len(invoked) : i < j => invoked[i][1] <= invoked[j][1]
    /\ \A j \in 1..Len(invoked) :
          /\ invoked[j][1] <= cur
          /\ \A k \in 1..(invoked[j][1] - 1) : Recorded(k)
    /\ Running # {} => invoked[Len(invoked)][1] = cur

C19_Witness ==
    /\ Len(phases) = 2
    /\ cur = 2
    /\ phases[1].parallel
    /\ phases[2].parallel
    /\ NTools(1) = 2
    /\ Cardinality(Running) = 2

\* C20: the number of tasks in flight never exceeds the bound of the running
\* phase: 1 in a sequential phase, min(max_workers, len(tasks)) in a parallel one.
C20_InFlightBounded ==
    Running # {} =>
        Cardinality(Running) <=
            IF phases[cur].parallel
            THEN Min(phases[cur].max_workers, NTools(cur))
            ELSE 1

C20_Witness ==
    /\ pc = "collect"
    /\ phases[cur].max_workers = 1
    /\ NTools(cur) = 2
    /\ status = <<"collected", "running">>

\* C21: a parallel phase never returns early: _run_parallel has returned (the
\* phase is at its threshold check or past it) only when every submitted task
\* was launched, has produced an outcome and had it collected, also when the
\* outcomes collected earlier already decide the threshold.
C21_ParallelNeverReturnsEarly ==
    /\ (cur \in PhaseIds /\ phases[cur].parallel /\ pc \in {"threshold", "returned"}) =>
          /\ \A j \in 1..NTools(cur) : status[j] = "collected"
          /\ Len(phase_results) = NTools(cur)
          /\ Len(InvokedTasks(cur)) = NTools(cur)
    /\ \A k \in PhaseIds :
          (phases[k].parallel /\ Recorded(k)) =>
              /\ Len(ResultOf(k)) = NTools(k)
              /\ Len(ObservedOf(k)) = NTools(k)

\* The threshold of the running parallel phase is already decided (enough
\* successes collected) while a task of the phase is still running.
C21_Witness ==
    /\ pc = "collect"
    /\ phases[cur].parallel
    /\ phases[cur].min_success = 1
    /\ NTools(cur) = 2
    /\ successful(phase_results) = 1
    /\ Running # {}

C25_ValidationFailureLaunchesNothing ==
    /\ cur = 0 => (invoked = <<>> /\ results = <<>> /\ observed = <<>>)
    /\ (pc = "returned" /\ cur = 0) =>
          /\ exit_code = 1
          /\ raised \in {None, "check_env"}
    /\ raised = "check_env" => (pc = "returned" /\ cur = 0 /\ exit_code = 1)

C25_Witness ==
    /\ pc = "returned"
    /\ cur = 0
    /\ raised = None
    /\ NTools(1) = 2

\* C26: whenever run() fails while executing phase k, by a threshold failure or
\* by a sequential critical fail-fast, the failure summary names phase k as the
\* phase the run failed at.
C26_FailureSummaryNamesFailingPhase ==
    (Aborted /\ raised \in {"threshold", "tool_failed"}) =>
        failed_at_phase = <<phases[cur].name>>

\* Two parallel phases of one run that differ only in name and critical, and
\* the outcomes the main thread saw in each, as <<task, success>> in order.
Twins ==
    /\ Len(phases) = 2
    /\ phases[1].parallel
    /\ phases[2] = [phases[1] EXCEPT !.name = phases[2].name,
                                     !.critical = ~phases[1].critical]
OutcomesOf(k) == [j \in 1..Len(ObservedOf(k)) |-> <<ObservedOf(k)[j][2], ObservedOf(k)[j][3]>>]
ErrorToolsOf(k) ==
    LET from == IF k = 1 THEN 1 ELSE err_mark + 1
        to == IF k = 1 /\ cur > 1 THEN err_mark ELSE Len(errors)
    IN  [j \in 1..(to - from + 1) |-> errors[from + j - 1].tool]

\* C27: the critical flag has no effect on a parallel phase: of two parallel
\* phases that differ only in critical (and name) and see the same outcomes,
\* the second launches the same tasks, records the same results and errors and
\* takes the same decision (it continues, as the first did), in either order of
\* the two critical values.
C27_CriticalIgnoredInParallel ==
    (Twins /\ PhaseOver(2) /\ OutcomesOf(1) = OutcomesOf(2)) =>
        /\ InvokedTasks(1) = InvokedTasks(2)
        /\ Recorded(1) /\ Recorded(2)
        /\ ResultOf(1) = ResultOf(2)
        /\ ErrorToolsOf(1) = ErrorToolsOf(2)
        /\ ~AbortedIn(2)
        /\ pc = "returned" => exit_code = 0

\* Both twins ran, each with a failed task collected first and a success; the
\* first twin is the critical one and the run went on after it.
C27_Witness ==
    /\ Twins
    /\ PhaseOver(2)
    /\ phases[1].critical
    /\ phases[1].min_success = 0
    /\ NTools(1) = 2
    /\ OutcomesOf(1) = <<<<2, FALSE>>, <<1, TRUE>>>>
    /\ OutcomesOf(2) = OutcomesOf(1)

\* The failed invocations the main thread has seen so far, in order.
FailedObserved == SelectSeq(observed, LAMBDA e : ~e[3])
ErrorsMatchFailures ==
    /\ Len(errors) = Len(FailedObserved)
    /\ \A j \in 1..Len(errors) :
          errors[j].tool = phases[FailedObserved[j][1]].tools[FailedObserved[j][2]]
ErrorsKept ==
    \A j \in 1..Len(errors) : Len(errors') >= j /\ errors'[j] = errors[j]

\* C28: at every point of a run self.errors holds exactly one entry for each
\* task invocation seen to fail so far, in both modes and for the task of a
\* sequential critical fail-fast, in the order the failures were seen; no step
\* removes or rewrites an entry.
C28_OneErrorPerFailedInvocation == [](ErrorsMatchFailures) /\ [][ErrorsKept]_vars

C28_Witness ==
    /\ pc = "returned"
    /\ raised = "tool_failed"
    /\ cur = 2
    /\ phases[1].parallel
    /\ Len(errors) = 3

\* A measure of the work run() has left: the phases not yet finished, the
\* main thread's position in the current one, and the steps its tasks still
\* have to take (queued -> running -> finished -> collected).
TotalTools ==
    LET sum[k \in 0..Len(phases)] == IF k = 0 THEN 0 ELSE sum[k - 1] + NTools(k)
    IN  sum[Len(phases)]
TaskSteps ==
    LET left(st) == CASE st = "queued" -> 3 [] st = "running" -> 2
                      [] st = "finished" -> 1 [] OTHER -> 0
        sum[j \in 0..Len(status)] == IF j = 0 THEN 0 ELSE sum[j - 1] + left(status[j])
    IN  sum[Len(status)]
WorkLeft ==
    IF pc = "returned" THEN 0
    ELSE (Len(phases) + 1 - cur) * (3 * TotalTools + 5)
         + (CASE pc \in {"validate", "loop"} -> 3 * TotalTools + 4
              [] pc = "submitted" -> 3
              [] pc \in {"collect", "seq"} -> 2
              [] OTHER -> 1)
         + TaskSteps

\* C29: run() always terminates with 0 or 1 when every launched task exits or
\* reaches its timeout (the fairness of SpecLive): until run() has returned
\* some step is possible, so no parallel phase deadlocks whatever max_workers
\* >= 1 is, and every step reduces the work that is left, so only finitely
\* many steps are taken; the tasks a parallel phase submitted are all collected
\* when it ends.
C29_RunEventuallyReturns ==
    /\ [](/\ pc # "returned" => ENABLED Next
          /\ pc = "returned" => exit_code \in {0, 1}
          /\ WorkLeft >= 0
          /\ (pc = "threshold" /\ phases[cur].parallel) =>
                \A j \in 1..Len(status) : status[j] = "collected")
    /\ [][WorkLeft' < WorkLeft]_vars

\* run() has returned after a parallel phase whose two tasks shared one worker.
C29_Witness ==
    /\ pc = "returned"
    /\ exit_code \in {0, 1}
    /\ phases[1].parallel
    /\ phases[1].max_workers = 1
    /\ NTools(1) = 2
    /\ Recorded(1)

\* A step is a load_config call that reads the file: the call it made, the
\* file it read, and the config in it once the defaults are applied.
CallMade == loaded'
IsLoad(c) == c.call = "load_config"
ReadsFile == IsLoad(CallMade) /\ (~CallMade.use_cache \/ config_cache = <<>>)
FileRead ==
    config_files[IF CallMade.config_path = <<>> THEN DefaultConfigPath
                 ELSE CallMade.config_path[1]]
PairwiseDistinctNames(ps) == \A i, j \in 1..Len(ps) : ps[i].name = ps[j].name => i = j
HasDuplicateName(ps) ==
    \E i, j \in 1..Len(ps) :
        /\ i < j
        /\ "name" \in DOMAIN ps[i]
        /\ "name" \in DOMAIN ps[j]
        /\ ps[i].name = ps[j].name

\* C23: a config whose phase list has two phases of the same name is rejected
\* with a ConfigError by validate_config, and so by every load_config that
\* reads it; the phase list of every config that load_config returns, and of
\* every runner constructed from it, has pairwise distinct names.
C23_DuplicateNamesRejected ==
    /\ [](/\ (IsLoad(loaded) /\ loaded.raised = "") =>
                /\ PairwiseDistinctNames(loaded.value[1].phases)
                /\ PairwiseDistinctNames(get_phases_from(loaded.value[1]))
          /\ config_cache # <<>> => PairwiseDistinctNames(config_cache[1].phases)
          /\ pc = "validate" => PairwiseDistinctNames(phases))
    /\ [][(ReadsFile /\ FileRead.kind = "yaml" /\ "phases" \in DOMAIN FileRead.config
              /\ HasDuplicateName(FileRead.config.phases)) =>
             /\ CallMade.raised # ""
             /\ validate_config(apply_defaults(FileRead.config)) # ""
             /\ validate_config(FileRead.config) # ""
             /\ UNCHANGED <<config_cache, phases>>]_vars

\* A file whose only fault is that its second phase has the name of the first
\* was read, and the load raised the duplicate-name error.
C23_Witness ==
    /\ IsLoad(loaded)
    /\ loaded.raised = "Duplicate phase name"
    /\ loaded.config_path = <<>>
    /\ config_files[DefaultConfigPath].kind = "yaml"
    /\ LET config == config_files[DefaultConfigPath].config IN
          /\ DOMAIN config = {"defaults", "phases"}
          /\ Len(config.phases) = 2
          /\ \A i \in 1..2 : DOMAIN config.phases[i] = {"name", "tools"}
    /\ config_cache = <<>>

\* The bound a config sets for phase i of its list: the phase's own
\* max_workers, else that of the defaults section.
InvalidBound(config) ==
    \/ /\ "defaults" \in DOMAIN config
       /\ "max_workers" \in DOMAIN config.defaults
       /\ config.defaults.max_workers < 1
    \/ /\ "phases" \in DOMAIN config
       /\ \E i \in 1..Len(config.phases) :
             /\ "max_workers" \in DOMAIN config.phases[i]
             /\ config.phases[i].max_workers < 1
BoundSet(config, i) ==
    IF "max_workers" \in DOMAIN config.phases[i] THEN config.phases[i].max_workers
    ELSE config.defaults.max_workers

\* C24: a config with a zero or negative max_workers, in its defaults section
\* or in any phase, is rejected with a ConfigError by every load that reads it
\* and is never cached; the phases of a config that was loaded, and of the
\* runner constructed from it, have exactly the bound the config sets, which
\* is at least 1, and the pool of a parallel phase is sized from that bound.
C24_InvalidBoundRejected ==
    /\ [](/\ (IsLoad(loaded) /\ loaded.raised = "") =>
                LET config == loaded.value[1] IN
                \A i \in 1..Len(config.phases) :
                    /\ get_phases_from(config)[i].max_workers = BoundSet(config, i)
                    /\ BoundSet(config, i) >= 1
          /\ pc = "validate" =>
                /\ \A i \in 1..Len(phases) :
                      /\ phases[i].max_workers >= 1
                      /\ pool_size(Len(phases[i].tools), phases[i].max_workers)
                            = Min(Len(phases[i].tools), phases[i].max_workers))
    /\ [][/\ (ReadsFile /\ FileRead.kind = "yaml" /\ InvalidBound(FileRead.config)) =>
                /\ CallMade.raised # ""
                /\ UNCHANGED <<config_cache, phases>>
          /\ (pc = "config" /\ pc' = "validate") =>
                /\ phases' = get_phases_from(CallMade.value[1])
                /\ \A i \in 1..Len(phases') :
                      phases'[i].max_workers = BoundSet(CallMade.value[1], i)]_vars

\* The file has a valid defaults section and first phase, and a second phase
\* with max_workers 0: the load raised the max_workers error.
C24_Witness ==
    /\ IsLoad(loaded)
    /\ loaded.raised = "max_workers must be a positive integer"
    /\ loaded.config_path = <<>>
    /\ config_files[DefaultConfigPath].kind = "yaml"
    /\ LET config == config_files[DefaultConfigPath].config IN
          /\ DOMAIN config = {"defaults", "phases"}
          /\ DOMAIN config.defaults = {"max_workers"}
          /\ config.defaults.max_workers = 2
          /\ Len(config.phases) = 2
          /\ "max_workers" \notin DOMAIN config.phases[1]
          /\ "max_workers" \in DOMAIN config.phases[2]
          /\ config.phases[2].max_workers = 0

\* C30: over any sequence of load_config and clear_cache calls: only a
\* load_config(use_cache=True) that read a file and passed validation changes
\* an empty cache, to the config it returns, and a load that raises leaves the
\* cache as it was; while the cache is populated every load_config(use_cache=
\* True) returns the cached config, whatever config_path is; a load with
\* use_cache=False returns what the file gives and leaves the cache alone;
\* clear_cache empties the cache, so that the next cached load reads the file.
C30_ConfigCache ==
    [][/\ CallMade.call = "clear_cache" => config_cache' = <<>>
       /\ IsLoad(CallMade) =>
             /\ (CallMade.use_cache /\ config_cache # <<>>) =>
                   /\ CallMade.raised = ""
                   /\ CallMade.value = config_cache
                   /\ config_cache' = config_cache
             /\ ReadsFile =>
                   /\ CallMade.raised = read_config(CallMade.config_path).raised
                   /\ CallMade.value = read_config(CallMade.config_path).value
             /\ ~CallMade.use_cache => config_cache' = config_cache
             /\ CallMade.raised # "" => config_cache' = config_cache
             /\ config_cache' # config_cache =>
                   /\ config_cache = <<>>
                   /\ CallMade.use_cache
                   /\ CallMade.raised = ""
                   /\ config_cache' = CallMade.value
             /\ (CallMade.use_cache /\ config_cache = <<>> /\ CallMade.raised = "") =>
                   config_cache' = CallMade.value]_vars

\* The cache holds the config of other.yaml, and load_config("config.yaml")
\* has returned it although there is no file at config.yaml.
C30_Witness ==
    /\ IsLoad(loaded)
    /\ loaded.use_cache
    /\ loaded.config_path = <<DefaultConfigPath>>
    /\ config_files[DefaultConfigPath].kind = "missing"
    /\ loaded.raised = ""
    /\ config_cache # <<>>
    /\ loaded.value = config_cache

====
